---- MODULE Spec2Model ----
(***************************************************************************)
(* A model of conrod's TextEdit widget (src/widget/text_edit.rs): the      *)
(* cursor/selection state machine of `update`, the `insert_text` closure,  *)
(* the Backspace handlers and the write-back of the persisted State.       *)
(*                                                                         *)
(* A text is a sequence of one-character strings.  Absolute character      *)
(* counts are 0-based as in the source: the character at count p is        *)
(* text[p + 1].  An Option<T> is a sequence of length at most one:         *)
(* None is << >> and Some(v) is << v >>.                                   *)
(*                                                                         *)
(* The `text` module of the crate (line breaking, index conversion,        *)
(* coordinate mapping, block height) is not part of the sources at hand;   *)
(* its operators below follow the specification's sections 4.1 to 4.3.     *)
(***************************************************************************)
EXTENDS Integers, Sequences, FiniteSets, TLC

\* ---------------------------------------------------------------- bounds
\* Longest text the model builds (an insertion that would exceed it is
\* not offered by the environment).
MaxLen == 3
\* Most events delivered to the widget in one update cycle.
MaxEvents == 1
\* Rows of the pointer grid (a pointer y is the row of lines it falls in).
MaxRow == 2

\* ------------------------------------------------- layout configuration
\* rect.w() in glyph widths; every glyph of the model's font is 1 wide.
RectW == 2
\* rect.h().
RectH == 8
\* style.font_size
font_size == 2
\* style.line_spacing
line_spacing == 1

Alphabet == {"a", " ", "\n"}

RECURSIVE TextsOfLen(_)
TextsOfLen(n) ==
  IF n = 0 THEN {<< >>}
  ELSE {Append(t, c) : t \in TextsOfLen(n - 1), c \in Alphabet}

Texts == UNION {TextsOfLen(n) : n \in 0..MaxLen}

\* ------------------------------------------------------------- Option<T>
None == << >>
Some(v) == << v >>
unwrap_or(o, d) == IF o = None THEN d ELSE o[1]

\* ------------------------------------------------ chars().take / skip
take(t, n) == SubSeq(t, 1, IF n < Len(t) THEN n ELSE Len(t))
skip(t, n) == SubSeq(t, n + 1, Len(t))

Index(l, c) == [line |-> l, char |-> c]

\* #[derive(PartialOrd, Ord)] on Index { line, char }: lexicographic.
IndexLe(a, b) == a.line < b.line \/ (a.line = b.line /\ a.char <= b.char)
min(a, b) == IF IndexLe(a, b) THEN a ELSE b
max(a, b) == IF IndexLe(a, b) THEN b ELSE a

Idx(i) == [tag |-> "Idx", start |-> i, end |-> i]
Selection(s, e) == [tag |-> "Selection", start |-> s, end |-> e]

\* ----------------------------------------------------------- Line Breaker
glyph_width(c) == 1
is_whitespace(c) == c = " "

\* First position p in s..Len(t)-1 (0-based) where the line starting at s
\* ends: a newline, or the character that would make the line wider than
\* max_width; Len(t) when the text ends first.
RECURSIVE scan(_, _, _, _)
scan(t, p, w, max_width) ==
  IF p >= Len(t) THEN [at |-> p, why |-> "End"]
  ELSE IF t[p + 1] = "\n" THEN [at |-> p, why |-> "Newline"]
  ELSE IF w + glyph_width(t[p + 1]) > max_width THEN [at |-> p, why |-> "Wrap"]
  ELSE scan(t, p + 1, w + glyph_width(t[p + 1]), max_width)

\* The whitespace positions of the line s..p-1.
whitespace_before(t, s, p) == {q \in s..(p - 1) : is_whitespace(t[q + 1])}

Maximum(S) == CHOOSE x \in S : \A y \in S : y <= x

\* The end of the line that starts at s and that the scan b stops: a
\* Whitespace wrap keeps the whitespace it breaks at in the earlier line; a
\* wrap with no whitespace on the line, and every Character wrap, breaks
\* right before the overflowing character.
line_end(t, s, wrap, b) ==
  IF b.why = "Wrap" /\ wrap = "Whitespace" /\ whitespace_before(t, s, b.at) # {}
    THEN Maximum(whitespace_before(t, s, b.at)) + 1
  ELSE IF b.why = "Wrap" /\ b.at = s THEN s + 1
  ELSE b.at

\* One Line Descriptor { start_char, end_char, end_break } and the start of
\* the line after it.  A newline is the break itself and belongs to no line.
make_line(s, e, why) ==
  [info |-> [start_char |-> s, end_char |-> e, end_break |-> why],
   next |-> IF why = "Newline" THEN e + 1 ELSE e]

break_line(t, s, wrap, b) == make_line(s, line_end(t, s, wrap, b), b.why)

next_line(t, s, wrap, max_width) == break_line(t, s, wrap, scan(t, s, 0, max_width))

RECURSIVE lines_from(_, _, _, _)
\* The descriptor n.info followed by those of the rest of the text.
rest_lines(t, n, wrap, max_width) ==
  IF n.info.end_break = "End" THEN << n.info >>
  ELSE << n.info >> \o lines_from(t, n.next, wrap, max_width)

lines_from(t, s, wrap, max_width) ==
  rest_lines(t, next_line(t, s, wrap, max_width), wrap, max_width)

\* fn line_infos(text, font, font_size, line_wrap, max_width), collected.
line_infos(t, wrap, max_width) == lines_from(t, 0, wrap, max_width)

\* text::height(num_lines, font_size, line_spacing)
height(num_lines) ==
  IF num_lines > 0
    THEN num_lines * font_size + (num_lines - 1) * line_spacing
  ELSE 0

\* ------------------------------------------------------ index conversion
\* text::glyph::index_after_cursor: Index -> absolute count.
index_after_cursor(infos, idx) ==
  IF idx.line < Len(infos)
     /\ infos[idx.line + 1].start_char + idx.char <= infos[idx.line + 1].end_char
    THEN Some(infos[idx.line + 1].start_char + idx.char)
  ELSE None

\* The lines whose character range holds the count n.
lines_holding(infos, n) ==
  {i \in 1..Len(infos) : infos[i].start_char <= n /\ n <= infos[i].end_char}

first_of(S) == CHOOSE j \in S : \A k \in S : j <= k

index_on_line(infos, i, n) == Index(i - 1, n - infos[i].start_char)

\* text::cursor::index_before_char: absolute count -> Index, on the first
\* line whose range holds the count.
index_before_char(infos, n) ==
  IF lines_holding(infos, n) = {} THEN None
  ELSE Some(index_on_line(infos, first_of(lines_holding(infos, n)), n))

line_len(info) == info.end_char - info.start_char

\* text::cursor::Index::previous
previous(idx, infos) ==
  IF idx.char > 0 THEN Some(Index(idx.line, idx.char - 1))
  ELSE IF idx.line > 0 /\ idx.line - 1 < Len(infos)
    THEN Some(Index(idx.line - 1, line_len(infos[idx.line])))
  ELSE None

\* text::cursor::Index::next
next(idx, infos) ==
  IF idx.line >= Len(infos) THEN None
  ELSE IF idx.char < line_len(infos[idx.line + 1])
    THEN Some(Index(idx.line, idx.char + 1))
  ELSE IF idx.line + 1 < Len(infos) THEN Some(Index(idx.line + 1, 0))
  ELSE None

\* ------------------------------------------------ Index/Coordinate Mapper
\* Horizontal positions are in half glyph widths, so that a pointer can
\* fall exactly between two character boundaries: boundary c of a line is
\* at x = 2 * c (x_align = Start).  A vertical position is a row.
PointXs == {0, 2 * RectW - 1, 2 * RectW}
Points == {<< x, y >> : x \in PointXs, y \in 0..MaxRow}

dist(a, b) == IF a >= b THEN a - b ELSE b - a

\* text::cursor::closest_cursor_index_on_line: the nearest boundary, the
\* earlier one on a tie.
closest_cursor_index_on_line(x_pos, info) ==
  CHOOSE c \in 0..line_len(info) :
    \A d \in 0..line_len(info) :
      dist(2 * c, x_pos) < dist(2 * d, x_pos)
      \/ (dist(2 * c, x_pos) = dist(2 * d, x_pos) /\ c <= d)

\* text::cursor::xy_at
xy_at(cursor_idx, infos) ==
  IF cursor_idx.line < Len(infos)
     /\ cursor_idx.char <= line_len(infos[cursor_idx.line + 1])
    THEN Some(<< 2 * cursor_idx.char, cursor_idx.line >>)
  ELSE None

\* The line nearest the row y.
closest_line(y, infos) == IF y < Len(infos) THEN y ELSE Len(infos) - 1

index_on(x_pos, l, infos) ==
  Index(l, closest_cursor_index_on_line(x_pos, infos[l + 1]))

\* text::cursor::closest_cursor_index_and_xy: the line nearest the point's
\* row, then the nearest boundary on it.
closest_cursor_index_and_xy(xy, infos) ==
  IF Len(infos) = 0 THEN None
  ELSE Some(index_on(xy[1], closest_line(xy[2], infos), infos))

\* the closure get_index_on_line
get_index_on_line(x_pos, line_idx, infos) ==
  IF line_idx < Len(infos) THEN Some(index_on(x_pos, line_idx, infos))
  ELSE None

\* ------------------------------------------------------------------ state
VARIABLES
  line_wrap,            \* style.line_wrap: "Whitespace" or "Character"
  restrict_to_height,   \* style.restrict_to_height
  callerText,           \* the string the caller holds and passes to TextEdit::new
  state,                \* the persisted State: cursor, drag, line_infos
  text,                 \* update's local `text` (the Cow's contents)
  owned,                \* whether the Cow is Cow::Owned
  cursor,               \* update's local `cursor`
  drag,                 \* update's local `drag`: "None", "Selecting", "MoveSelection"
  updated,              \* whether state.update was invoked during this cycle
  pc,                   \* "idle" (between cycles), "events" (in the loop), "panicked"
  nev,                  \* events handled so far in this cycle
  per_cycle,            \* how many events ui.widget_input delivers to one cycle at most
  persisted,            \* the State as it was persisted when this cycle began
  ret,                  \* the Option<String> the last finished cycle returned
  last,                 \* the event handled by the last step
  prev,                 \* what the loop held before that event
  whole,                \* the same events handled by one uninterrupted cycle
  anchor,               \* the index the last left press set, while only pointer
                        \* events have followed it
  changed,              \* whether an event of this cycle put characters into
                        \* the text or left it different
  typed                 \* the text and cursor count before a character just
                        \* typed at an Idx, and whether Backspace followed

vars == << line_wrap, restrict_to_height, callerText, state, text, owned,
           cursor, drag, updated, pc, nev, per_cycle, persisted, ret, last,
           prev, whole, anchor, changed, typed >>

\* What the event loop reads and writes, as one value.
Env == [line_infos |-> state.line_infos, text |-> text, owned |-> owned,
        cursor |-> cursor, drag |-> drag, updated |-> updated,
        panicked |-> pc = "panicked"]

\* The Line Breaker under the cycle's wrap policy and width.
infos_of(t) == line_infos(t, line_wrap, RectW)

\* ------------------------------------------------------------ Edit Engine
\* `match cursor { Idx(idx) => (idx, idx), Selection { start, end } =>
\* (min(start, end), max(start, end)) }`
cursor_start(cur) == IF cur.tag = "Idx" THEN cur.start ELSE min(cur.start, cur.end)
cursor_end(cur) == IF cur.tag = "Idx" THEN cur.start ELSE max(cur.start, cur.end)

\* finish_insert accepting a result exactly as tall as the rectangle.
finish_insert_off_by_one(new_text, new_line_infos, new_cursor_char_idx, string_char_count) ==
  IF height(Len(new_line_infos)) <= RectH \/ ~restrict_to_height
    THEN Some([line_infos |-> new_line_infos,
               text |-> new_text,
               cursor |-> Idx(unwrap_or(
                 index_before_char(new_line_infos, new_cursor_char_idx),
                 Index(0, string_char_count)))])
  ELSE None

\* The end of insert_text: the height check, the new cursor resolved
\* against the new line_infos, and the returned triple.
finish_insert(new_text, new_line_infos, new_cursor_char_idx, string_char_count) ==
  IF height(Len(new_line_infos)) < RectH \/ ~restrict_to_height
    THEN Some([line_infos |-> new_line_infos,
               text |-> new_text,
               cursor |-> Idx(unwrap_or(
                 index_before_char(new_line_infos, new_cursor_char_idx),
                 Index(0, string_char_count)))])
  ELSE None

\* insert_text from `let new_line_infos`: the Line Breaker on the new text.
rewrap_insert(new_text, new_cursor_char_idx, string_char_count) ==
  finish_insert(new_text, infos_of(new_text), new_cursor_char_idx,
                string_char_count)

\* splice leaving the cursor count at the start of the replaced range.
splice_cursor_not_advanced(string, t, start_idx, end_idx) ==
  rewrap_insert(take(t, start_idx) \o string \o skip(t, end_idx),
                start_idx, Len(string))

\* insert_text from `let new_cursor_char_idx`: the new text and the count
\* the cursor goes to.
splice(string, t, start_idx, end_idx) ==
  rewrap_insert(take(t, start_idx) \o string \o skip(t, end_idx),
                start_idx + Len(string), Len(string))

\* insert_text splicing at the Selection's start and end as given, without
\* putting them in order first.
insert_text_unordered(string, cur, t, infos) ==
  splice(string, t,
         unwrap_or(index_after_cursor(infos, cur.start), 0),
         unwrap_or(index_after_cursor(infos, cur.end), 0))

\* The closure insert_text: Some((new_text, new_cursor, new_line_infos)),
\* or None when the height check rejects the edit.
insert_text(string, cur, t, infos) ==
  splice(string, t,
         unwrap_or(index_after_cursor(infos, cursor_start(cur)), 0),
         unwrap_or(index_after_cursor(infos, cursor_end(cur)), 0))

\* apply_insert with a rejected insertion still collapsing the cursor.
apply_insert_collapsing(env, r) ==
  IF r = None THEN [env EXCEPT !.cursor = Idx(min(env.cursor.start, env.cursor.end))]
  ELSE [env EXCEPT !.text = r[1].text, !.owned = TRUE, !.cursor = r[1].cursor,
                   !.line_infos = r[1].line_infos, !.updated = TRUE]

\* The arms `Some((new_text, new_cursor, new_line_infos)) => ..., _ => ()`
\* that follow both calls of insert_text.
apply_insert(env, r) ==
  IF r = None THEN env
  ELSE [env EXCEPT !.text = r[1].text, !.owned = TRUE, !.cursor = r[1].cursor,
                   !.line_infos = r[1].line_infos, !.updated = TRUE]

panic(env) == [env EXCEPT !.panicked = TRUE]

\* --------------------------------------------------------- event handlers
\* The cursor made a Selection from its start to the index found.
select_from_start(env, closest) ==
  IF closest = None THEN env
  ELSE [env EXCEPT !.cursor = Selection(env.cursor.start, closest[1])]

\* `if let Some((closest_cursor, _)) = closest { cursor = Idx(closest_cursor) }`
cursor_to(env, closest) ==
  [env EXCEPT !.cursor = IF closest = None THEN @ ELSE Idx(closest[1])]

\* press_left stretching an existing Selection to the press point.
press_left_extending(env, xy) ==
  [(IF env.cursor.tag = "Selection"
      THEN select_from_start(env, closest_cursor_index_and_xy(xy, env.line_infos))
    ELSE cursor_to(env, closest_cursor_index_and_xy(xy, env.line_infos)))
     EXCEPT !.drag = "Selecting"]

\* press_left that starts moving the selection when the press falls on a
\* Selection.
press_left_moving(env, xy) ==
  [cursor_to(env, closest_cursor_index_and_xy(xy, env.line_infos))
     EXCEPT !.drag = IF env.cursor.tag = "Selection" THEN "MoveSelection"
                     ELSE "Selecting"]

\* Press, MouseButton::Left
press_left(env, xy) ==
  [cursor_to(env, closest_cursor_index_and_xy(xy, env.line_infos))
     EXCEPT !.drag = "Selecting"]

\* removed resolving the new cursor against the line_infos of the text
\* before the removal.
removed_stale_cursor(env, new_text, new_line_infos, idx_to_remove) ==
  [env EXCEPT !.text = new_text, !.owned = TRUE,
              !.line_infos = new_line_infos, !.updated = TRUE,
              !.cursor = Idx(unwrap_or(
                index_before_char(env.line_infos, idx_to_remove), Index(0, 0)))]

\* removed leaving state.line_infos as they were.
removed_keeps_infos(env, new_text, new_line_infos, idx_to_remove) ==
  [env EXCEPT !.text = new_text, !.owned = TRUE,
              !.cursor = Idx(unwrap_or(
                index_before_char(new_line_infos, idx_to_remove), Index(0, 0)))]

\* Backspace at Idx, after the character is gone: the text is owned,
\* state.line_infos are those of the new text, and the cursor is resolved
\* against them.
removed(env, new_text, new_line_infos, idx_to_remove) ==
  [env EXCEPT !.text = new_text, !.owned = TRUE,
              !.line_infos = new_line_infos, !.updated = TRUE,
              !.cursor = Idx(unwrap_or(
                index_before_char(new_line_infos, idx_to_remove), Index(0, 0)))]

\* `*text.to_mut() = ...` followed by the state.update that recomputes
\* state.line_infos.
rewrap_removed(env, new_text, idx_to_remove) ==
  removed(env, new_text, infos_of(new_text), idx_to_remove)

\* remove_before taking out the character after the cursor.
remove_after(env, idx_after_cursor) ==
  IF idx_after_cursor # None /\ idx_after_cursor[1] > 0
    THEN rewrap_removed(
           env,
           take(env.text, idx_after_cursor[1]) \o skip(env.text, idx_after_cursor[1] + 1),
           idx_after_cursor[1])
  ELSE env

\* `if let Some(idx) = idx_after_cursor { if idx > 0 { ... } }`
remove_before(env, idx_after_cursor) ==
  IF idx_after_cursor # None /\ idx_after_cursor[1] > 0
    THEN rewrap_removed(
           env,
           take(env.text, idx_after_cursor[1] - 1) \o skip(env.text, idx_after_cursor[1]),
           idx_after_cursor[1] - 1)
  ELSE env

\* Key::Backspace, Cursor::Idx
backspace_idx(env) ==
  remove_before(env, index_after_cursor(env.line_infos, env.cursor.start))

\* Backspace on a Selection, from `cursor = Cursor::Idx(new_cursor_idx)`:
\* new_cursor_idx was taken from the line_infos of the text before the
\* removal; the text and state.line_infos are replaced after it.
selection_removed(env, new_cursor_idx, new_text) ==
  IF new_cursor_idx = None THEN panic(env)
  ELSE [env EXCEPT !.cursor = Idx(new_cursor_idx[1]),
                   !.text = new_text, !.owned = TRUE,
                   !.line_infos = infos_of(new_text), !.updated = TRUE]

\* Backspace on a Selection, from the ordered pair (start_idx, end_idx).
remove_range(env, start_idx, end_idx) ==
  selection_removed(
    env,
    index_before_char(env.line_infos, IF start_idx > 0 THEN start_idx ELSE 0),
    take(env.text, start_idx) \o skip(env.text, end_idx))

\* `if start_idx <= end_idx { (start_idx, end_idx) } else { (end_idx, start_idx) }`
\* on the two counts, each of them an `expect`.
remove_between(env, s, e) ==
  IF s = None \/ e = None THEN panic(env)
  ELSE remove_range(env,
                    IF s[1] <= e[1] THEN s[1] ELSE e[1],
                    IF s[1] <= e[1] THEN e[1] ELSE s[1])

\* Key::Backspace, Cursor::Selection
backspace_selection(env) ==
  remove_between(env,
                 index_after_cursor(env.line_infos, env.cursor.start),
                 index_after_cursor(env.line_infos, env.cursor.end))

backspace(env) ==
  IF env.cursor.tag = "Idx" THEN backspace_idx(env) ELSE backspace_selection(env)

\* key_left collapsing a Selection to its anchor.
key_left_to_anchor(env, ctrl) ==
  IF ctrl THEN env
  ELSE IF env.cursor.tag = "Idx"
    THEN [env EXCEPT !.cursor =
            Idx(unwrap_or(previous(env.cursor.start, env.line_infos), env.cursor.start))]
  ELSE [env EXCEPT !.cursor = Idx(env.cursor.start)]

\* Key::Left
key_left(env, ctrl) ==
  IF ctrl THEN env
  ELSE IF env.cursor.tag = "Idx"
    THEN [env EXCEPT !.cursor =
            Idx(unwrap_or(previous(env.cursor.start, env.line_infos), env.cursor.start))]
  ELSE [env EXCEPT !.cursor = Idx(min(env.cursor.start, env.cursor.end))]

\* key_right going round to the start of the text from its end.
key_right_wrapping(env, ctrl) ==
  IF ctrl THEN env
  ELSE IF env.cursor.tag = "Idx"
    THEN [env EXCEPT !.cursor =
            Idx(unwrap_or(next(env.cursor.start, env.line_infos), Index(0, 0)))]
  ELSE [env EXCEPT !.cursor = Idx(max(env.cursor.start, env.cursor.end))]

\* Key::Right
key_right(env, ctrl) ==
  IF ctrl THEN env
  ELSE IF env.cursor.tag = "Idx"
    THEN [env EXCEPT !.cursor =
            Idx(unwrap_or(next(env.cursor.start, env.line_infos), env.cursor.start))]
  ELSE [env EXCEPT !.cursor = Idx(max(env.cursor.start, env.cursor.end))]

\* `match key { Up => cursor_idx.line.saturating_sub(1), Down => cursor_idx.line + 1 }`
next_line_idx(cursor_idx, key) ==
  IF key = "Up" THEN (IF cursor_idx.line > 0 THEN cursor_idx.line - 1 ELSE 0)
  ELSE cursor_idx.line + 1

\* move_vertically keeping the character offset on the target line.
move_vertically_keeps_column(env, key, at) ==
  [env EXCEPT !.cursor = Idx(
     IF at = None \/ next_line_idx(env.cursor.start, key) >= Len(env.line_infos)
       THEN env.cursor.start
     ELSE Index(next_line_idx(env.cursor.start, key), env.cursor.start.char))]

\* Up/Down, from the cursor's own position `at` (its xy_at).
move_vertically(env, key, at) ==
  [env EXCEPT !.cursor = Idx(
     IF at = None THEN env.cursor.start
     ELSE unwrap_or(get_index_on_line(at[1][1],
                                      next_line_idx(env.cursor.start, key),
                                      env.line_infos),
                    env.cursor.start))]

\* Key::Up | Key::Down
key_up_down(env, key) ==
  move_vertically(env, key, xy_at(env.cursor.start, env.line_infos))

\* select_to keeping the start of the cursor for the start of the Selection.
select_to_from_cursor(env, end) ==
  IF end = None THEN panic(env)
  ELSE [env EXCEPT !.cursor = Selection(env.cursor.start, end[1])]

\* Ctrl+A, from the Index of the end of the text (an `expect`).
select_to(env, end) ==
  IF end = None THEN panic(env)
  ELSE [env EXCEPT !.cursor = Selection(Index(0, 0), end[1])]

\* Key::A
key_a(env, ctrl) ==
  IF ctrl THEN select_to(env, index_before_char(env.line_infos, Len(env.text)))
  ELSE env

\* key_e moving an Idx cursor to the end of the text on Ctrl+E.
key_e_to_end(env, ctrl) ==
  IF ctrl /\ env.cursor.tag = "Idx"
    THEN [env EXCEPT !.cursor =
            Idx(unwrap_or(index_before_char(env.line_infos, Len(env.text)),
                          env.cursor.start))]
  ELSE env

\* Key::E: both branches are empty.
key_e(env, ctrl) == env

\* key_return putting the newline at the start of a Selection and keeping
\* the selected characters.
key_return_at_start(env) ==
  apply_insert(env, insert_text(<< "\n" >>, Idx(env.cursor.start), env.text,
                                env.line_infos))

\* Key::Return
key_return(env) ==
  apply_insert(env, insert_text(<< "\n" >>, env.cursor, env.text, env.line_infos))

\* release clearing the drag on any button.
release_any_button(env, button) == [env EXCEPT !.drag = "None"]

\* event::Widget::Release
release(env, button) ==
  IF button = "MouseLeft" THEN [env EXCEPT !.drag = "None"] ELSE env

\* The glyphs the arrow keys produce on OS X.
ArrowGlyphs == {<< "\\u{f700}" >>, << "\\u{f701}" >>, << "\\u{f702}" >>, << "\\u{f703}" >>}

\* text_event paying no heed to the Ctrl modifier.
text_event_ignoring_ctrl(env, string, ctrl) ==
  IF Len(string) = 0 THEN env
  ELSE IF string \in ArrowGlyphs THEN env
  ELSE apply_insert(env, insert_text(string, env.cursor, env.text, env.line_infos))

\* event::Widget::Text
text_event(env, string, ctrl) ==
  IF ctrl \/ Len(string) = 0 THEN env
  ELSE IF string \in ArrowGlyphs THEN env
  ELSE apply_insert(env, insert_text(string, env.cursor, env.text, env.line_infos))

\* select_until taking the live end of a Selection for its anchor.
select_until_from_end(env, closest) ==
  IF closest = None THEN env
  ELSE [env EXCEPT !.cursor = Selection(env.cursor.end, closest[1])]

\* Drag::Selecting: `if let Some((end_cursor_idx, _)) = closest { ... }`
select_until(env, closest) ==
  IF closest = None THEN env
  ELSE [env EXCEPT !.cursor = Selection(env.cursor.start, closest[1])]

\* event::Widget::Drag
drag_event(env, button, xy) ==
  IF button # "MouseLeft" THEN env
  ELSE IF env.drag = "Selecting"
    THEN select_until(env, closest_cursor_index_and_xy(xy, env.line_infos))
  ELSE IF env.drag = "MoveSelection" THEN panic(env)
  ELSE env

\* ---------------------------------------------------------------- events
Keys == {"Backspace", "Left", "Right", "Up", "Down", "A", "E", "Return", "Tab"}
Strings == {<< "a" >>, << " " >>, << "a", "a" >>, << >>,
            << "\\u{f700}" >>, << "\\u{f703}" >>}

Event(kind, button, key, ctrl, xy, string) ==
  [xy |-> xy, string |-> string, ctrl |-> ctrl, key |-> key,
   button |-> button, kind |-> kind]

NoEvent == Event("None", "-", "-", FALSE, << 0, 0 >>, << >>)

\* One pass of the body of the 'events loop.
handle(ev, env) ==
  CASE ev.kind = "Press" /\ ev.button = "MouseLeft" -> press_left(env, ev.xy)
    [] ev.kind = "Press" /\ ev.button = "Keyboard" /\ ev.key = "Backspace" -> backspace(env)
    [] ev.kind = "Press" /\ ev.button = "Keyboard" /\ ev.key = "Left" -> key_left(env, ev.ctrl)
    [] ev.kind = "Press" /\ ev.button = "Keyboard" /\ ev.key = "Right" -> key_right(env, ev.ctrl)
    [] ev.kind = "Press" /\ ev.button = "Keyboard" /\ ev.key \in {"Up", "Down"} ->
         key_up_down(env, ev.key)
    [] ev.kind = "Press" /\ ev.button = "Keyboard" /\ ev.key = "A" -> key_a(env, ev.ctrl)
    [] ev.kind = "Press" /\ ev.button = "Keyboard" /\ ev.key = "E" -> key_e(env, ev.ctrl)
    [] ev.kind = "Press" /\ ev.button = "Keyboard" /\ ev.key = "Return" -> key_return(env)
    [] ev.kind = "Release" -> release(env, ev.button)
    [] ev.kind = "Text" -> text_event(env, ev.string, ev.ctrl)
    [] ev.kind = "Drag" -> drag_event(env, ev.button, ev.xy)
    [] OTHER -> env

\* ---------------------------------------------------------------- cycles
\* fn init_state
init_state == [line_infos |-> << >>, cursor |-> Idx(Index(0, 0)), drag |-> "None"]

\* The locals of `update` once state.line_infos are fresh.
begin_with(st, t, new_line_infos) ==
  [line_infos |-> new_line_infos, text |-> t, owned |-> FALSE,
   cursor |-> st.cursor, drag |-> st.drag,
   updated |-> st.line_infos # new_line_infos, panicked |-> FALSE]

\* The head of `update`: borrow the caller's text, refresh state.line_infos
\* when they differ from the Line Breaker's output, copy cursor and drag.
begin(st, t) == begin_with(st, t, infos_of(t))

\* write_back that stores the cursor and forgets the drag.
write_back_without_drag(st, env) ==
  [st EXCEPT !.cursor = IF st.cursor # env.cursor THEN env.cursor ELSE @]

\* The write-back of cursor and drag after the loop.
write_back(st, env) ==
  [st EXCEPT !.cursor = IF st.cursor # env.cursor THEN env.cursor ELSE @,
             !.drag = IF st.drag # env.drag THEN env.drag ELSE @]

\* fn take_if_owned
take_if_owned(t, is_owned) == IF is_owned THEN Some(t) ELSE None

\* What handling the same events in one uninterrupted cycle leaves.
View(env) == [line_infos |-> env.line_infos, text |-> env.text,
              cursor |-> env.cursor, drag |-> env.drag,
              panicked |-> env.panicked]
Unview(w) == [line_infos |-> w.line_infos, text |-> w.text, owned |-> FALSE,
              cursor |-> w.cursor, drag |-> w.drag, updated |-> FALSE,
              panicked |-> w.panicked]

\* The widget as constructed, with one of the caller's texts and cycles of
\* at most n events.
Start(texts, n) ==
  /\ line_wrap \in {"Whitespace", "Character"}
  /\ restrict_to_height \in BOOLEAN
  /\ callerText \in texts
  /\ state = init_state
  /\ text = callerText
  /\ owned = FALSE
  /\ cursor = init_state.cursor
  /\ drag = init_state.drag
  /\ updated = FALSE
  /\ pc = "idle"
  /\ nev = 0
  /\ per_cycle = n
  /\ persisted = init_state
  /\ ret = None
  /\ last = NoEvent
  /\ prev = None
  /\ whole = View(begin(init_state, callerText))
  /\ anchor = None
  /\ changed = FALSE
  /\ typed = << >>

Init == Start(Texts, MaxEvents)

Config == << line_wrap, restrict_to_height >>

\* The variables after the loop's locals became env.
Becomes(env) ==
  /\ text' = env.text
  /\ owned' = env.owned
  /\ cursor' = env.cursor
  /\ drag' = env.drag
  /\ state' = [state EXCEPT !.line_infos = env.line_infos]
  /\ updated' = env.updated
  /\ pc' = IF env.panicked THEN "panicked" ELSE "events"

\* update, up to the 'events loop.
BeginCycle ==
  /\ pc = "idle"
  /\ Becomes(begin(state, callerText))
  /\ nev' = 0
  /\ last' = NoEvent
  /\ prev' = None
  /\ ret' = None
  /\ changed' = FALSE
  /\ persisted' = state
  /\ UNCHANGED << Config, per_cycle, callerText, whole, anchor, typed >>

\* update with no font to be had: `None => return None`.
NoFont ==
  /\ pc = "idle"
  /\ ret' = None
  /\ changed' = FALSE
  /\ UNCHANGED << Config, per_cycle, persisted, callerText, state, text,
                  owned, cursor, drag, updated, pc, nev, last, prev, whole,
                  anchor, typed >>

\* The loop's locals become env; the model follows a text past MaxLen
\* characters only while it does not grow.
Handled(env) ==
  /\ Len(env.text) <= MaxLen \/ Len(env.text) <= Len(text)
  /\ Becomes(env)

\* The anchor of a pointer selection: the start of the cursor that a left
\* press leaves, kept over pointer events and forgotten at the next key or
\* text event.
anchor_after(ev, a, cur) ==
  CASE ev.kind = "Press" /\ ev.button = "MouseLeft" -> Some(cur.start)
    [] ev.kind = "Press" /\ ev.button = "Keyboard" -> None
    [] ev.kind = "Text" -> None
    [] OTHER -> a

\* The string the event has insert_text put into the text, if any.
inserted_by(ev) ==
  IF ev.kind = "Press" /\ ev.button = "Keyboard" /\ ev.key = "Return"
    THEN Some(<< "\n" >>)
  ELSE IF ev.kind = "Text" /\ ~ev.ctrl /\ Len(ev.string) > 0
          /\ ev.string \notin ArrowGlyphs
    THEN Some(ev.string)
  ELSE None

\* The event changes the text: its insertion is accepted, or the text it
\* leaves differs from the one it found.
edits(ev, env) ==
  IF inserted_by(ev) # None
    THEN insert_text(inserted_by(ev)[1], env.cursor, env.text, env.line_infos) # None
  ELSE handle(ev, env).text # env.text

\* What is on record of a character typed and then removed: after a Text
\* event whose one character was inserted at an Idx in range, the text and
\* the character count of the cursor before it; after a Backspace that
\* follows at once, the same, marked as undone; nothing after anything else.
typed_after(ev, ty, env) ==
  IF /\ ev.kind = "Text"
     /\ inserted_by(ev) # None
     /\ Len(ev.string) = 1
     /\ env.cursor.tag = "Idx"
     /\ index_after_cursor(env.line_infos, env.cursor.start) # None
     /\ edits(ev, env)
    THEN << "typed", env.text,
            index_after_cursor(env.line_infos, env.cursor.start)[1] >>
  ELSE IF /\ ev.kind = "Press" /\ ev.button = "Keyboard" /\ ev.key = "Backspace"
          /\ ty # << >>
          /\ ty[1] = "typed"
    THEN << "undone", ty[2], ty[3] >>
  ELSE << >>

\* One iteration of the 'events loop on event ev.
Step(ev) ==
  /\ pc = "events"
  /\ nev < per_cycle
  /\ Handled(handle(ev, Env))
  /\ whole' = View(handle(ev, Unview(whole)))
  /\ anchor' = anchor_after(ev, anchor, cursor')
  /\ changed' = (changed \/ edits(ev, Env))
  /\ typed' = typed_after(ev, typed, Env)
  /\ nev' = nev + 1
  /\ last' = ev
  /\ prev' = Some(Env)
  /\ UNCHANGED << Config, per_cycle, persisted, callerText, ret >>

PressMouseLeft == \E xy \in Points :
  Step(Event("Press", "MouseLeft", "-", FALSE, xy, << >>))
PressMouseRight ==
  Step(Event("Press", "MouseRight", "-", FALSE, << 0, 0 >>, << >>))
PressKey == \E key \in Keys, ctrl \in BOOLEAN :
  /\ ctrl => key \in {"Left", "Right", "A", "E"}
  /\ Step(Event("Press", "Keyboard", key, ctrl, << 0, 0 >>, << >>))
Release == \E button \in {"MouseLeft", "MouseRight"} :
  Step(Event("Release", button, "-", FALSE, << 0, 0 >>, << >>))
Text == \E string \in Strings, ctrl \in BOOLEAN :
  /\ ctrl => string = << "a" >>
  /\ Step(Event("Text", "-", "-", ctrl, << 0, 0 >>, string))
Drag == \E button \in {"MouseLeft", "MouseRight"}, xy \in Points :
  /\ button = "MouseRight" => xy = << 0, 0 >>
  /\ Step(Event("Drag", button, "-", FALSE, xy, << >>))
OtherEvent ==
  Step(Event("Other", "-", "-", FALSE, << 0, 0 >>, << >>))

\* update from the end of the loop: the write-back and the return value,
\* which the caller stores when it is Some.
EndCycle ==
  /\ pc = "events"
  /\ state' = write_back(state, Env)
  /\ updated' = (updated \/ state.cursor # cursor \/ state.drag # drag)
  /\ ret' = take_if_owned(text, owned)
  /\ callerText' = IF owned THEN text ELSE callerText
  /\ pc' = "idle"
  /\ last' = NoEvent
  /\ prev' = None
  /\ UNCHANGED << Config, per_cycle, persisted, text, owned, cursor, drag,
                  nev, whole, anchor, changed, typed >>

Next ==
  \/ BeginCycle
  \/ NoFont
  \/ PressMouseLeft
  \/ PressMouseRight
  \/ PressKey
  \/ Release
  \/ Text
  \/ Drag
  \/ OtherEvent
  \/ EndCycle

Spec == Init /\ [][Next]_vars

\* A sitting at the keyboard alone, whose cycles take one event more, over
\* the empty text and over a text of two wrapped lines beyond MaxLen.
TwoLines == << " ", "a", "\n", "a", "a" >>

TypingInit == Start({<< >>, TwoLines}, MaxEvents + 1)

TypingNext ==
  \/ BeginCycle
  \/ NoFont
  \/ PressKey
  \/ Text
  \/ EndCycle

TypingSpec == TypingInit /\ [][TypingNext]_vars

\* ================================================================ claims
\* What the claims speak of: the event just handled, the loop's values
\* before it (Pre) and after it (the current state).
Stepped == prev # None /\ pc \in {"events", "panicked"}
Pre == prev[1]

IsReturn == last.kind = "Press" /\ last.button = "Keyboard" /\ last.key = "Return"
IsTextInsert ==
  /\ last.kind = "Text"
  /\ ~last.ctrl
  /\ last.string # << >>
  /\ last.string \notin ArrowGlyphs
InsertAttempted == Stepped /\ (IsReturn \/ IsTextInsert)
Inserted == IF IsReturn THEN << "\n" >> ELSE last.string
IsBackspace ==
  Stepped /\ last.kind = "Press" /\ last.button = "Keyboard" /\ last.key = "Backspace"

\* An index names a line of infos and a char offset within that line.
ValidIndex(i, infos) ==
  i.line < Len(infos) /\ i.char <= line_len(infos[i.line + 1])
ValidCursor(cur, infos) == ValidIndex(cur.start, infos) /\ ValidIndex(cur.end, infos)

\* The absolute character range of a valid cursor, in buffer order.
AbsOf(i, infos) == infos[i.line + 1].start_char + i.char
Lo(cur, infos) ==
  IF AbsOf(cur.start, infos) <= AbsOf(cur.end, infos)
    THEN AbsOf(cur.start, infos) ELSE AbsOf(cur.end, infos)
Hi(cur, infos) ==
  IF AbsOf(cur.start, infos) <= AbsOf(cur.end, infos)
    THEN AbsOf(cur.end, infos) ELSE AbsOf(cur.start, infos)

\* prefix + string + suffix over the cursor's range.
Spliced(t, cur, infos, string) ==
  SubSeq(t, 1, Lo(cur, infos)) \o string \o SubSeq(t, Hi(cur, infos) + 1, Len(t))

\* The loop's text, cursor and line descriptors are those before the event.
Untouched ==
  /\ text = Pre.text
  /\ cursor = Pre.cursor
  /\ state.line_infos = Pre.line_infos

\* C1: when restrict_to_height is on and the height check rejects the
\* insertion a Text-insert or Return event attempts, the text, the cursor
\* (a Selection stays the same Selection) and the line descriptors after
\* the event equal those before it.
C1_RejectionLeavesStateUntouched ==
  (/\ InsertAttempted
   /\ restrict_to_height
   /\ insert_text(Inserted, Pre.cursor, Pre.text, Pre.line_infos) = None)
  => Untouched

\* Under Whitespace wrap, with the mouse button released, a Text-insert
\* over a Selection of one character has just been rejected by the height
\* check.
C1_Witness ==
  /\ InsertAttempted
  /\ IsTextInsert
  /\ restrict_to_height
  /\ line_wrap = "Whitespace"
  /\ Pre.drag = "None"
  /\ Pre.cursor.tag = "Selection"
  /\ Pre.cursor.start # Pre.cursor.end
  /\ ValidCursor(Pre.cursor, Pre.line_infos)
  /\ height(Len(infos_of(Spliced(Pre.text, Pre.cursor, Pre.line_infos, Inserted)))) >= RectH
  /\ cursor.tag = "Selection"

\* C2: in every state of the event loop the cursor index, and both ends of
\* a Selection, name an existing line of the current line descriptors and
\* a char offset within that line.
C2_CursorNamesExistingPosition ==
  pc = "events" => ValidCursor(cursor, state.line_infos)

\* C3: no handler panics.
C3_NoPanic == pc # "panicked"

\* The insertion the last event attempts is one the height check lets pass.
HeightAllows(t) == ~restrict_to_height \/ height(Len(infos_of(t))) < RectH

\* The last event attempted an insertion at a cursor valid for the
\* descriptors, and NewText is what the splice over its range gives.
InsertAtValidCursor == InsertAttempted /\ ValidCursor(Pre.cursor, Pre.line_infos)
NewText == Spliced(Pre.text, Pre.cursor, Pre.line_infos, Inserted)

\* C4: an accepted insertion of s yields prefix + s + suffix over the
\* cursor's absolute range taken in buffer order, so the character count
\* grows by count(s) minus the length of that range.
C4_AcceptedInsertionSplices ==
  (InsertAtValidCursor /\ HeightAllows(NewText))
  => /\ text = NewText
     /\ Len(text) = Len(Pre.text) + Len(Inserted)
                    - (Hi(Pre.cursor, Pre.line_infos) - Lo(Pre.cursor, Pre.line_infos))

\* Under Character wrap, with the mouse button released, an accepted
\* insertion of two characters has replaced the non-empty range of a
\* Selection whose end precedes its start.
C4_Witness ==
  /\ InsertAtValidCursor
  /\ HeightAllows(NewText)
  /\ line_wrap = "Character"
  /\ restrict_to_height
  /\ Pre.drag = "None"
  /\ Len(Inserted) = 2
  /\ Pre.cursor.tag = "Selection"
  /\ AbsOf(Pre.cursor.end, Pre.line_infos) < AbsOf(Pre.cursor.start, Pre.line_infos)
  /\ text = NewText
  /\ text # Pre.text

\* C5: after an accepted insertion of s the cursor is Idx at the index the
\* count start_count + count(s) converts to under the descriptors of the
\* new text, and the persisted descriptors are those of the new text.
\* With no wrapping, inserting one character at Idx(0,0) before one other
\* character leaves the cursor at Idx(0,1).
C5_CursorAfterInsertion ==
  (InsertAtValidCursor /\ HeightAllows(NewText))
  => /\ state.line_infos = infos_of(NewText)
     /\ cursor.tag = "Idx"
     /\ index_before_char(infos_of(NewText),
                          Lo(Pre.cursor, Pre.line_infos) + Len(Inserted))
          = Some(cursor.start)
     /\ (Pre.text = << "a" >> /\ Pre.cursor = Idx(Index(0, 0)) /\ Inserted = << " " >>)
        => (text = << " ", "a" >> /\ cursor = Idx(Index(0, 1)))

\* Under Whitespace wrap, with the mouse button released, an accepted
\* insertion has collapsed a Selection of some characters and the new text
\* wraps differently from the old one.
C5_Witness ==
  /\ InsertAtValidCursor
  /\ HeightAllows(NewText)
  /\ line_wrap = "Whitespace"
  /\ ~restrict_to_height
  /\ Pre.drag = "None"
  /\ Pre.cursor.tag = "Selection"
  /\ Pre.cursor.start # Pre.cursor.end
  /\ cursor.tag = "Idx"
  /\ Len(state.line_infos) # Len(Pre.line_infos)
  /\ cursor.start.line > 0

\* The last event was Backspace at a valid Idx cursor.
BackspaceAtValidIdx ==
  IsBackspace /\ Pre.cursor.tag = "Idx" /\ ValidIndex(Pre.cursor.start, Pre.line_infos)
PreCount == AbsOf(Pre.cursor.start, Pre.line_infos)

\* C6: Backspace with Cursor::Idx at absolute position n > 0 removes
\* exactly the character at n - 1 and puts the cursor at Idx of n - 1 under
\* the re-wrapped descriptors; with the cursor at (0,0) it changes neither
\* the text, nor the cursor, nor the descriptors.
C6_BackspaceAtIdx ==
  BackspaceAtValidIdx
  => /\ PreCount > 0
        => /\ text = SubSeq(Pre.text, 1, PreCount - 1)
                     \o SubSeq(Pre.text, PreCount + 1, Len(Pre.text))
           /\ state.line_infos = infos_of(text)
           /\ index_before_char(infos_of(text), PreCount - 1) = Some(cursor.start)
           /\ cursor.tag = "Idx"
     /\ Pre.cursor.start = Index(0, 0) => Untouched

\* Under Character wrap, with the mouse button released, Backspace has
\* removed a character from a line after the first and the remaining text
\* wraps onto fewer lines.
C6_Witness ==
  /\ BackspaceAtValidIdx
  /\ line_wrap = "Character"
  /\ ~restrict_to_height
  /\ Pre.drag = "None"
  /\ Pre.text = << "a", "a", "a" >>
  /\ Pre.cursor.start.line > 0
  /\ Pre.cursor.start.char > 0
  /\ Len(text) = Len(Pre.text) - 1
  /\ Len(state.line_infos) < Len(Pre.line_infos)

\* The last event was Backspace on a valid Selection.
BackspaceOnValidSelection ==
  /\ IsBackspace
  /\ Pre.cursor.tag = "Selection"
  /\ ValidCursor(Pre.cursor, Pre.line_infos)

\* C7: Backspace on a Selection removes exactly the characters of the
\* normalized range and leaves the (text, cursor, descriptors) that
\* inserting the empty string over the Selection leaves: the cursor is Idx
\* at the range start resolved against the descriptors of the new text.
C7_BackspaceSelectionIsInsertEmpty ==
  BackspaceOnValidSelection
  => /\ text = Spliced(Pre.text, Pre.cursor, Pre.line_infos, << >>)
     /\ state.line_infos = infos_of(text)
     /\ index_before_char(infos_of(text), Lo(Pre.cursor, Pre.line_infos))
          = Some(cursor.start)
     /\ cursor.tag = "Idx"
     /\ LET r == insert_text(<< >>, Pre.cursor, Pre.text, Pre.line_infos)
        IN r # None => /\ text = r[1].text
                       /\ cursor = r[1].cursor
                       /\ state.line_infos = r[1].line_infos

\* C8: an insertion is rejected exactly when restrict_to_height is on and
\* the block height of the re-wrapped new text is at least the rectangle's
\* height; otherwise it is accepted.
C8_RejectedIffTooTall ==
  InsertAtValidCursor
  => IF restrict_to_height /\ height(Len(infos_of(NewText))) >= RectH
       THEN Untouched /\ owned = Pre.owned /\ updated = Pre.updated
     ELSE /\ text = NewText
          /\ state.line_infos = infos_of(NewText)
          /\ cursor.tag = "Idx"
          /\ owned
          /\ updated

\* Under Character wrap, with the mouse button released, an insertion at
\* the end of the text whose result is exactly as tall as the rectangle has
\* been rejected.
C8_Witness ==
  /\ InsertAtValidCursor
  /\ restrict_to_height
  /\ line_wrap = "Character"
  /\ Pre.drag = "None"
  /\ Pre.cursor.tag = "Idx"
  /\ AbsOf(Pre.cursor.start, Pre.line_infos) = Len(Pre.text)
  /\ Pre.text # << >>
  /\ height(Len(infos_of(NewText))) = RectH
  /\ height(Len(Pre.line_infos)) < RectH
  /\ Untouched

\* C9: between any two events of a cycle and at the end of every cycle
\* the persisted line descriptors are the Line Breaker's output for the
\* current text.
C9_DescriptorsFollowText ==
  /\ pc = "events" => state.line_infos = infos_of(text)
  /\ (pc = "idle" /\ state.line_infos # init_state.line_infos)
       => state.line_infos = infos_of(callerText)

\* Under Whitespace wrap, with the mouse button released, a Backspace at
\* an Idx cursor on a line after the first has changed the text and the
\* descriptors with it.
C9_Witness ==
  /\ IsBackspace
  /\ pc = "events"
  /\ line_wrap = "Whitespace"
  /\ restrict_to_height
  /\ Pre.drag = "None"
  /\ Pre.cursor.start.line > 0
  /\ Pre.cursor.tag = "Idx"
  /\ text # Pre.text
  /\ state.line_infos # Pre.line_infos
  /\ Len(state.line_infos) = Len(Pre.line_infos)

\* C10: cutting the event sequence into cycles, the caller passing each
\* returned text into the next cycle, leaves the text, cursor, drag and
\* descriptors that handling the whole sequence in one cycle leaves.
C10_SplitCyclesAgreeWithWhole ==
  /\ pc \in {"events", "panicked"} => View(Env) = whole
  /\ pc = "idle" => View(begin(state, callerText)) = whole

\* Under Character wrap, a drag handled in a later cycle than the press it
\* belongs to has made a Selection that spans two lines of a text of
\* three characters.
C10_Witness ==
  /\ Stepped
  /\ pc = "events"
  /\ line_wrap = "Character"
  /\ restrict_to_height
  /\ cursor.start.line # cursor.end.line
  /\ Len(text) = 3
  /\ last.kind = "Drag"
  /\ Pre.drag = "Selecting"
  /\ nev <= 1
  /\ cursor.tag = "Selection"
  /\ cursor.start # cursor.end
  /\ text # << >>
  /\ View(Env) = whole

\* ------------------------------------------------------- pointer events
IsLeftPress == Stepped /\ last.kind = "Press" /\ last.button = "MouseLeft"
IsLeftRelease == Stepped /\ last.kind = "Release" /\ last.button = "MouseLeft"
IsLeftDrag == Stepped /\ last.kind = "Drag" /\ last.button = "MouseLeft"

\* The index nearest a point: on the line nearest the point's row, the
\* character boundary nearest the point's x, the earlier one on a tie.
NearestLine(y, infos) ==
  CHOOSE l \in 0..(Len(infos) - 1) :
    \A k \in 0..(Len(infos) - 1) : dist(l, y) <= dist(k, y)
NearestChar(x, info) ==
  CHOOSE c \in 0..line_len(info) :
    \A d \in 0..line_len(info) :
      dist(2 * c, x) < dist(2 * d, x)
      \/ (dist(2 * c, x) = dist(2 * d, x) /\ c <= d)
NearestIndex(xy, infos) ==
  Index(NearestLine(xy[2], infos),
        NearestChar(xy[1], infos[NearestLine(xy[2], infos) + 1]))

\* The point lies at or past the end of the last line of infos.
PastEndOfLastLine(xy, infos) ==
  /\ xy[2] >= Len(infos) - 1
  /\ xy[1] >= 2 * line_len(infos[Len(infos)])

C13_DragStatePersists ==
  /\ IsLeftRelease
     => (drag = "None" /\ cursor = Pre.cursor /\ text = Pre.text)
  /\ (Stepped /\ ~IsLeftPress /\ ~IsLeftRelease) => drag = Pre.drag
  /\ (IsLeftDrag /\ Pre.drag = "None") => (Untouched /\ drag = "None")
  /\ pc = "idle" => state.drag = drag
  /\ (pc = "events" /\ prev = None) => drag = state.drag

\* Under Character wrap, a left release that ends a gesture begun in an
\* earlier cycle has cleared the drag state and kept the Selection the
\* gesture made.
C13_Witness ==
  /\ IsLeftRelease
  /\ line_wrap = "Character"
  /\ ~restrict_to_height
  /\ Pre.drag = "Selecting"
  /\ state.drag = "Selecting"
  /\ drag = "None"
  /\ cursor.tag = "Selection"
  /\ cursor.start.line # cursor.end.line
  /\ Len(text) = 3

\* ------------------------------------------------------------ key events
IsKey(k) ==
  Stepped /\ last.kind = "Press" /\ last.button = "Keyboard" /\ last.key = k

\* One character back from a valid index: over a line boundary to the end
\* of the line before, and nowhere from the start of the text.
PreviousIndex(i, infos) ==
  IF i.char > 0 THEN Index(i.line, i.char - 1)
  ELSE IF i.line > 0 THEN Index(i.line - 1, line_len(infos[i.line]))
  ELSE i

\* One character on from a valid index: over a line boundary to the start
\* of the line after, and nowhere from the end of the text.
NextIndex(i, infos) ==
  IF i.char < line_len(infos[i.line + 1]) THEN Index(i.line, i.char + 1)
  ELSE IF i.line + 1 < Len(infos) THEN Index(i.line + 1, 0)
  ELSE i

LastIndex(infos) == Index(Len(infos) - 1, line_len(infos[Len(infos)]))

\* The event changed neither the text, nor the descriptors, nor the drag.
OnlyCursorMoved ==
  /\ text = Pre.text
  /\ state.line_infos = Pre.line_infos
  /\ drag = Pre.drag
  /\ owned = Pre.owned

\* C14: Left without Ctrl takes Idx(i) to Idx(previous(i)) and a Selection
\* to Idx(min(start, end)); Right without Ctrl takes Idx(i) to Idx(next(i))
\* and a Selection to Idx(max(start, end)); swapping the ends of the
\* Selection gives the same result, and text and drag stay as they were.
C14_LeftRightMoveOrCollapse ==
  /\ (IsKey("Left") /\ ~last.ctrl)
     => /\ OnlyCursorMoved
        /\ (Pre.cursor.tag = "Idx" /\ ValidIndex(Pre.cursor.start, Pre.line_infos))
           => cursor = Idx(PreviousIndex(Pre.cursor.start, Pre.line_infos))
        /\ Pre.cursor.tag = "Selection"
           => /\ cursor = Idx(min(Pre.cursor.start, Pre.cursor.end))
              /\ cursor = Idx(min(Pre.cursor.end, Pre.cursor.start))
  /\ (IsKey("Right") /\ ~last.ctrl)
     => /\ OnlyCursorMoved
        /\ (Pre.cursor.tag = "Idx" /\ ValidIndex(Pre.cursor.start, Pre.line_infos))
           => cursor = Idx(NextIndex(Pre.cursor.start, Pre.line_infos))
        /\ Pre.cursor.tag = "Selection"
           => /\ cursor = Idx(max(Pre.cursor.start, Pre.cursor.end))
              /\ cursor = Idx(max(Pre.cursor.end, Pre.cursor.start))

\* Under Whitespace wrap, Left has collapsed a Selection whose anchor is
\* its later end, on the second line, to its earlier end on the first line.
C14_Witness ==
  /\ IsKey("Left")
  /\ ~last.ctrl
  /\ line_wrap = "Whitespace"
  /\ restrict_to_height
  /\ Pre.drag = "None"
  /\ Pre.cursor.tag = "Selection"
  /\ Pre.cursor.start.line = 1
  /\ Pre.cursor.end.line = 0
  /\ cursor = Idx(Pre.cursor.end)

\* C15: Left with the cursor at Idx(0,0) leaves it at Idx(0,0), and Right
\* with the cursor at the last index of the last line leaves it there, on
\* every text, the empty one included, however often the key is pressed.
C15_MovementSaturates ==
  /\ (IsKey("Left") /\ ~last.ctrl /\ Pre.cursor = Idx(Index(0, 0)))
     => (cursor = Idx(Index(0, 0)) /\ OnlyCursorMoved)
  /\ (IsKey("Right") /\ ~last.ctrl /\ Pre.cursor = Idx(LastIndex(Pre.line_infos)))
     => (cursor = Pre.cursor /\ OnlyCursorMoved)

\* Under Character wrap, Right at the end of the second line of a text of
\* three characters has left the cursor where it was.
C15_Witness ==
  /\ IsKey("Right")
  /\ ~last.ctrl
  /\ line_wrap = "Character"
  /\ ~restrict_to_height
  /\ Pre.drag = "None"
  /\ Len(text) = 3
  /\ Len(Pre.line_infos) = 2
  /\ Pre.cursor = Idx(LastIndex(Pre.line_infos))
  /\ cursor = Pre.cursor

\* The line Up or Down goes to from line l: one line up or down, kept
\* within the lines of infos.
TargetLine(l, key, infos) ==
  IF key = "Up" THEN (IF l > 0 THEN l - 1 ELSE 0)
  ELSE IF l + 1 <= Len(infos) - 1 THEN l + 1 ELSE Len(infos) - 1

\* The index on the target line whose x is nearest the x of origin.
VerticalTarget(origin, key, infos) ==
  Index(TargetLine(origin.line, key, infos),
        NearestChar(2 * origin.char,
                    infos[TargetLine(origin.line, key, infos) + 1]))

IsUpDown == IsKey("Up") \/ IsKey("Down")

\* C16: Up / Down sets the cursor to Idx, from the index of an Idx or the
\* start of a Selection as origin, at the index on the target line whose x
\* is nearest the origin's x; the target line is the origin's line minus
\* or plus one kept within [0, line_count - 1], so that Up on line 0 and
\* Down on the last line give an index on that same line, and never one on
\* a line that does not exist.
C16_UpDownMovesToNearestOnTargetLine ==
  (IsUpDown /\ ValidIndex(Pre.cursor.start, Pre.line_infos))
  => /\ cursor = Idx(VerticalTarget(Pre.cursor.start, last.key, Pre.line_infos))
     /\ ValidIndex(cursor.start, state.line_infos)
     /\ OnlyCursorMoved
     /\ (last.key = "Up" /\ Pre.cursor.start.line = 0) => cursor.start.line = 0
     /\ (last.key = "Down" /\ Pre.cursor.start.line = Len(Pre.line_infos) - 1)
        => cursor.start.line = Pre.cursor.start.line

\* Under Whitespace wrap, Down from a Selection anchored at the end of a
\* first line of two characters has put the cursor at the end of a shorter
\* second line.
C16_Witness ==
  /\ IsKey("Down")
  /\ line_wrap = "Whitespace"
  /\ ~restrict_to_height
  /\ Pre.drag = "None"
  /\ Pre.cursor.tag = "Selection"
  /\ Pre.cursor.start = Index(0, 2)
  /\ Pre.cursor.end # Pre.cursor.start
  /\ cursor = Idx(Index(1, 1))
  /\ line_len(state.line_infos[2]) = 1

IsText == Stepped /\ last.kind = "Text"

\* The Text event is one of those the handler passes over.
Filtered ==
  last.ctrl \/ last.string = << >> \/ last.string \in ArrowGlyphs

\* The event changed nothing the loop holds.
NothingChanged ==
  /\ Untouched
  /\ drag = Pre.drag
  /\ owned = Pre.owned
  /\ updated = Pre.updated

\* C18: a Text event whose modifiers include Ctrl, whose string is empty,
\* or whose string is one of the glyphs U+F700..U+F703 changes nothing;
\* every other Text event attempts the insertion of its string at the
\* cursor.  So the Text event "a" that comes with Ctrl+A does not replace
\* the new Selection by "a".
C18_TextEventsAreFiltered ==
  /\ (IsText /\ Filtered) => NothingChanged
  /\ (IsText /\ ~Filtered /\ ValidCursor(Pre.cursor, Pre.line_infos))
     => IF HeightAllows(NewText)
          THEN /\ text = NewText
               /\ state.line_infos = infos_of(NewText)
               /\ cursor.tag = "Idx"
               /\ owned
        ELSE NothingChanged
  /\ (IsText /\ last.ctrl /\ last.string = << "a" >>) => text = Pre.text

\* Under Whitespace wrap, the Text event "a" with Ctrl held has left alone
\* a text of three characters and the Selection of all of it.
C18_Witness ==
  /\ IsText
  /\ last.ctrl
  /\ last.string = << "a" >>
  /\ line_wrap = "Whitespace"
  /\ ~restrict_to_height
  /\ Pre.drag = "None"
  /\ anchor = None
  /\ Len(Pre.text) = 3
  /\ Pre.cursor = Selection(Index(0, 0), LastIndex(Pre.line_infos))
  /\ NothingChanged

\* C19: Return does to text, cursor and descriptors what the insertion of
\* "\n" does at the same state: the newline replaces a Selection, the
\* cursor goes right after the newline, and under restrict_to_height the
\* event changes nothing when the new line count makes the height meet or
\* exceed the rectangle's height.
C19_ReturnIsInsertNewline ==
  IsKey("Return")
  => /\ View(Env) = View(text_event(Pre, << "\n" >>, FALSE))
     /\ ValidCursor(Pre.cursor, Pre.line_infos)
        => IF restrict_to_height /\ height(Len(infos_of(NewText))) >= RectH
             THEN NothingChanged
           ELSE /\ text = Spliced(Pre.text, Pre.cursor, Pre.line_infos, << "\n" >>)
                /\ state.line_infos = infos_of(text)
                /\ cursor.tag = "Idx"
                /\ ValidIndex(cursor.start, state.line_infos)
                /\ AbsOf(cursor.start, state.line_infos)
                     = Lo(Pre.cursor, Pre.line_infos) + 1
                /\ cursor.start.char = 0
                /\ text[Lo(Pre.cursor, Pre.line_infos) + 1] = "\n"

\* Under Whitespace wrap, Return has replaced a Selection of the second of
\* three characters, made from its later end, by a newline, and the cursor
\* is at the start of the second line.
C19_Witness ==
  /\ IsKey("Return")
  /\ line_wrap = "Whitespace"
  /\ ~restrict_to_height
  /\ Pre.drag = "None"
  /\ Len(Pre.text) = 3
  /\ Pre.cursor = Selection(Index(0, 2), Index(0, 1))
  /\ Len(text) = 3
  /\ text[2] = "\n"
  /\ cursor = Idx(Index(1, 0))

\* ---------------------------------------------------------- return value
\* C20: a cycle returns Some(text) exactly when an event of the cycle
\* changed the text, and then the text as the last event left it; a cycle
\* of cursor movements, pointer events, rejected insertions, Backspace at
\* the start of the text or Backspace on a Selection whose start is its
\* end returns None.
C20_SomeIffTextChanged ==
  pc = "idle"
  => /\ (ret # None) <=> changed
     /\ ret # None => ret = Some(text)

\* ---------------------------------------------------------- other events
\* The event is none of the transition table's: a press, release or drag
\* of a mouse button other than the left one, Left or Right with Ctrl,
\* E with or without Ctrl, A without Ctrl, any other key, any other event.
OutsideTheTable ==
  \/ last.kind \in {"Press", "Release", "Drag"} /\ last.button = "MouseRight"
  \/ /\ last.kind = "Press"
     /\ last.button = "Keyboard"
     /\ \/ last.key \in {"Left", "Right"} /\ last.ctrl
        \/ last.key = "E"
        \/ last.key = "A" /\ ~last.ctrl
        \/ last.key \notin {"Backspace", "Left", "Right", "Up", "Down", "A",
                            "E", "Return"}
  \/ last.kind = "Other"

Fits(t) == height(Len(infos_of(t))) < RectH

\* C23: with restrict_to_height on, a text whose wrapped height is below
\* the rectangle's height stays so over every event, Text-insert, Return
\* and Backspace among them, and over every cycle boundary; Backspace,
\* which checks no height, does not make the re-wrapped text too tall.
C23_FittingTextStaysFitting ==
  /\ (Stepped /\ restrict_to_height /\ Fits(Pre.text)) => Fits(text)
  /\ (pc = "idle" /\ restrict_to_height /\ Fits(text)) => Fits(callerText)

\* The part of C23 that insert_text's height test does give: under
\* restrict_to_height no event but Backspace takes a fitting text to one
\* that does not fit.
C23_OnlyBackspaceOutgrows ==
  (Stepped /\ restrict_to_height /\ Fits(Pre.text) /\ ~IsBackspace) => Fits(text)

\* ------------------------------------------------------------ state.update
\* The persisted cursor, drag or descriptors are not the ones the cycle
\* began with.
Differs(st, old) ==
  \/ st.cursor # old.cursor
  \/ st.drag # old.drag
  \/ st.line_infos # old.line_infos

\* C21: a cycle invokes state.update only if the cursor, the drag or the
\* line descriptors it persists differ by value from the ones persisted
\* when it began; a cycle whose events leave all three as they were
\* performs no state write.
C21_WritesOnlyOnChange ==
  (pc = "idle" /\ updated) => Differs(state, persisted)

\* ------------------------------------------------------------ Drag values
Drags == {"None", "Selecting"}

\* C24: the drag is never MoveSelection, in the loop's local or in the
\* persisted State, so no left Drag event meets the MoveSelection arm and
\* its unimplemented!() is never run.
C24_NeverMoveSelection ==
  /\ drag \in Drags
  /\ state.drag \in Drags
  /\ persisted.drag \in Drags
  /\ IsLeftDrag => (Pre.drag \in Drags /\ pc = "events")

\* A left Drag handled while the drag is Selecting, begun by a left press
\* on a Selection that an earlier drag had made.
C24_Witness ==
  /\ IsLeftDrag
  /\ line_wrap = "Character"
  /\ restrict_to_height
  /\ persisted.drag = "Selecting"
  /\ persisted.cursor.tag = "Selection"
  /\ persisted.cursor.start # persisted.cursor.end
  /\ Pre.drag = "Selecting"
  /\ drag = "Selecting"
  /\ cursor.tag = "Selection"
  /\ pc = "events"

\* ------------------------------------------------- conversion that fails
\* Converting an end of the cursor before the event to a character count
\* fails: the Index is out of range for the descriptors.
ConversionFails ==
  \/ index_after_cursor(Pre.line_infos, Pre.cursor.start) = None
  \/ index_after_cursor(Pre.line_infos, Pre.cursor.end) = None

\* new is t with some range lo..hi, lo <= hi, replaced by string.
IsSplice(t, string, new) ==
  \E lo \in 0..Len(t) : \E hi \in lo..Len(t) :
    new = SubSeq(t, 1, lo) \o string \o SubSeq(t, hi + 1, Len(t))

\* C25: when converting the cursor's Index to a character count fails,
\* Backspace (at Idx and on a Selection), Text-insert and Return clamp and
\* carry on: the update is not aborted, and an insertion still leaves
\* prefix + string + suffix for a range with start_count <= end_count.
C25_FailedConversionIsClamped ==
  (Stepped /\ ConversionFails /\ (IsBackspace \/ InsertAttempted)) =>
    /\ pc = "events"
    /\ (InsertAttempted /\ ~Untouched) => IsSplice(Pre.text, Inserted, text)

\* ------------------------------------------------------ type, then remove
\* The last two events were an accepted Text-insert of one character at an
\* Idx in range and, at once, Backspace.
TypedAndRemoved == typed # << >> /\ typed[1] = "undone"

\* C26: from an Idx in range, an accepted Text-insert of one character
\* followed at once by Backspace gives back the text exactly and leaves
\* the cursor an Idx at the same character count, wrap and newline
\* boundaries included.
C26_TypeThenBackspaceRestores ==
  TypedAndRemoved =>
    /\ pc # "panicked"
    /\ text = typed[2]
    /\ cursor.tag = "Idx"
    /\ index_after_cursor(state.line_infos, cursor.start) = Some(typed[3])

\* Under Whitespace wrap, a character typed at the start of the second of
\* two lines was accepted and removed again.
C26_Witness ==
  /\ TypedAndRemoved
  /\ line_wrap = "Whitespace"
  /\ restrict_to_height
  /\ drag = "None"
  /\ Len(state.line_infos) = 2
  /\ typed[3] = state.line_infos[2].start_char
  /\ text = typed[2]
  /\ cursor = Idx(Index(1, 0))

====
